---- MODULE Spec2Model ----
(***************************************************************************)
(* A model of lbrynet/wallet/blockchain.py: the BlockchainHeaders store    *)
(* (a flat file of 112-byte header records behind a cached length and a    *)
(* DeferredLock) and the _ArithUint256 compact-target arithmetic.          *)
(*                                                                         *)
(* Representations.                                                        *)
(*   - A Python long is a sequence of base-256 digits, least significant   *)
(*     first, with no leading zero digit (<<>> is 0).  The arithmetic is   *)
(*     done on the digits, so 256-bit values keep their full width.        *)
(*   - A 32-bit "bits" field is the pair <<e, m>> of its top byte and its  *)
(*     low 24 bits: the integer e * 2^24 + m.                              *)
(*   - The file is a sequence of whole 112-byte records (file) followed by *)
(*     at most one partial record (tail).                                  *)
(***************************************************************************)
EXTENDS Integers, Sequences, FiniteSets, TLC

(***************************************************************************)
(* Arbitrary-precision naturals (Python's long).                           *)
(***************************************************************************)
RECURSIVE Norm(_)
Norm(s) ==
    IF s = <<>> THEN <<>>
    ELSE IF s[Len(s)] = 0 THEN Norm(SubSeq(s, 1, Len(s) - 1))
    ELSE s

RECURSIVE FromInt(_)
FromInt(n) == IF n = 0 THEN <<>> ELSE <<n % 256>> \o FromInt(n \div 256)

RECURSIVE ToInt(_)
ToInt(s) == IF s = <<>> THEN 0 ELSE s[1] + 256 * ToInt(Tail(s))

Zeros(n) == [i \in 1..n |-> 0]

\* value << 8*n
ShiftLeftBytes(s, n) == IF s = <<>> THEN <<>> ELSE Zeros(n) \o s

\* value >> 8*n
ShiftRightBytes(s, n) == IF n >= Len(s) THEN <<>> ELSE SubSeq(s, n + 1, Len(s))

\* value & (256^n - 1)
LowBytes(s, n) == Norm(SubSeq(s, 1, IF Len(s) < n THEN Len(s) ELSE n))

RECURSIVE MulCarry(_, _, _)
MulCarry(s, x, carry) ==
    IF s = <<>> THEN FromInt(carry)
    ELSE LET p == s[1] * x + carry
         IN  <<p % 256>> \o MulCarry(Tail(s), x, p \div 256)

\* value * x, x a small natural
MulSmall(s, x) == Norm(MulCarry(s, x, 0))

RECURSIVE DivRem(_, _, _)
DivRem(s, x, rem) ==
    IF s = <<>> THEN <<>>
    ELSE LET cur == rem * 256 + s[Len(s)]
         IN  DivRem(SubSeq(s, 1, Len(s) - 1), x, cur % x) \o <<cur \div x>>

\* value // x, x a small positive natural
DivSmall(s, x) == Norm(DivRem(s, x, 0))

RECURSIVE GtFrom(_, _, _)
GtFrom(a, b, i) ==
    IF i = 0 THEN FALSE
    ELSE IF a[i] # b[i] THEN a[i] > b[i]
    ELSE GtFrom(a, b, i - 1)

\* a > b
Gt(a, b) ==
    IF Len(a) # Len(b) THEN Len(a) > Len(b) ELSE GtFrom(a, b, Len(a))

\* a <= b
Le(a, b) == ~Gt(a, b)

RECURSIVE BitLenInt(_)
BitLenInt(n) == IF n = 0 THEN 0 ELSE 1 + BitLenInt(n \div 2)

\* len(bin(value)[2:]); bin(0) is "0b0"
BinLen(s) == IF s = <<>> THEN 1 ELSE 8 * (Len(s) - 1) + BitLenInt(s[Len(s)])

(***************************************************************************)
(* Chain parameters (blockchain_params['lbrycrd_main']) and the record     *)
(* size, imported from .constants.                                         *)
(***************************************************************************)
HEADER_SIZE == 112

\* 0x0000ffff...ff: 2^240 - 1
max_target == [i \in 1..30 |-> 255]

target_timespan == 150

\* 0x1f00ffff
genesis_bits == <<31, 65535>>

\* The chain is not 'lbrycrd_regtest': the bits range assertions are on.
chain_is_regtest == FALSE

(***************************************************************************)
(* _ArithUint256                                                           *)
(***************************************************************************)
\* fromCompact with the mantissa one byte too high.
fromCompactOneByteUp(nCompact) ==
    IF nCompact[1] <= 2
    THEN FromInt((nCompact[2] % 8388608) \div (2 ^ (8 * (2 - nCompact[1]))))
    ELSE ShiftLeftBytes(FromInt(nCompact[2] % 8388608), nCompact[1] - 2)

\* fromCompact: nSize = nCompact >> 24, nWord = nCompact & 0x007fffff
fromCompact(nCompact) ==
    LET nSize == nCompact[1]
        nWord == nCompact[2] % 8388608
    IN  IF nSize <= 3
        THEN FromInt(nWord \div (2 ^ (8 * (3 - nSize))))
        ELSE ShiftLeftBytes(FromInt(nWord), nSize - 3)

\* bits(): every character of bin(value)[2:] is a non-empty string and so
\* true: the loop returns at i = 0 with len(bn) + 1.
bits(value) == BinLen(value) + 1

GetLow64(value) == LowBytes(value, 8)

\* GetCompact: ok with the pair <<nSize, nCompact>> standing for
\* nCompact | nSize << 24, or not ok when one of its two assertions fails.
GetCompact(value) ==
    LET nSize0 == (bits(value) + 7) \div 8
        nCompact0 == IF nSize0 <= 3
                     THEN ShiftLeftBytes(GetLow64(value), 3 - nSize0)
                     ELSE GetLow64(ShiftRightBytes(value, nSize0 - 3))
        sign == Len(nCompact0) >= 3 /\ nCompact0[3] >= 128
        nCompact == IF sign THEN ShiftRightBytes(nCompact0, 1) ELSE nCompact0
        nSize == IF sign THEN nSize0 + 1 ELSE nSize0
    IN  IF ~(Len(nCompact) < 3 \/ (Len(nCompact) = 3 /\ nCompact[3] < 128))
        THEN [ok |-> FALSE]
        ELSE IF ~(nSize < 256) THEN [ok |-> FALSE]
        ELSE [ok |-> TRUE, compact |-> <<nSize, ToInt(nCompact)>>]

\* __mul__: (value * x) % 2 ** 256
Mul(value, x) == LowBytes(MulSmall(value, x), 32)

\* A floor division by the target timespan, whatever the divisor asked for.
FloorDivByTargetTimespan(value, x) == DivSmall(value, target_timespan)

\* __ifloordiv__
FloorDiv(value, x) == DivSmall(value, x)

(***************************************************************************)
(* Bounds of the model.                                                    *)
(***************************************************************************)
\* The file holds at most MaxLen records: connect is called with
\* start + len(headers)/112 <= MaxLen.
MaxLen == 2

\* The number of distinct non-zero values of the linkage hash.
HashMod == 2

(***************************************************************************)
(* Header records.  A record of the file is the seven fields _deserialize  *)
(* reads from its 112 bytes; block_height is passed beside it.             *)
(***************************************************************************)
\* Python's None where a header is expected.
None == [none |-> TRUE]

\* A record of 112 zero bytes.
ZeroRecord ==
    [version |-> 0, prev_block_hash |-> 0, merkle_root |-> 0,
     claim_trie_root |-> 0, timestamp |-> 0, bits |-> <<0, 0>>, nonce |-> 0]

\* 0x1e00ffff: a canonical compact target below the genesis one
LowerBits == <<30, 65535>>

\* 0x1f010000: decodes to 2^240, above max_target
OverBits == <<31, 65536>>

\* 0x2000ffff: its exponent is outside [0x03, 0x1f]
RangeBits == <<32, 65535>>

BitsValues == {genesis_bits, LowerBits, OverBits, RangeBits}

\* One timestamp: _calculate_lbry_next_work_required multiplies and divides
\* by the same clamped timespan, so the timestamps of a record decide nothing
\* that the store does.
Timestamps == {0}

Nonces == {0, 1, 2}

Hashes == 0..HashMod

\* The records a caller may hand to connect.
Headers ==
    [version : {1}, prev_block_hash : Hashes, merkle_root : {1},
     claim_trie_root : {1}, timestamp : Timestamps, bits : BitsValues,
     nonce : Nonces]

\* Hash (double SHA-256 of the serialized header), as a value in 1..HashMod;
\* 0 stands for the all-zero hash '0' * 64, which Hash never returns.
Hash(header) ==
    1 + ((header.version + header.prev_block_hash + header.merkle_root
          + header.claim_trie_root + header.timestamp + header.bits[1]
          + header.bits[2] + header.nonce) % HashMod)

\* _hash_header
hash_header(header) == IF header = None THEN 0 ELSE Hash(header)

\* PoWHash of the serialized header, read as a big-endian integer.  The
\* nonce selects one of three values: 2^200, 0xffff << 224 | 1 (above the
\* target the genesis bits decode to, below max_target) and 2^250.
PoWHash(header) ==
    CASE header.nonce % 3 = 0 -> Zeros(25) \o <<1>>
      [] header.nonce % 3 = 1 -> <<1>> \o Zeros(27) \o <<255, 255>>
      [] OTHER -> Zeros(31) \o <<4>>

\* int('0x' + _pow_hash_header(header), 16)
pow_hash_int(header) == IF header = None THEN <<>> ELSE PoWHash(header)

(***************************************************************************)
(* _calculate_lbry_next_work_required(height, first, last): the record     *)
(* ok with the pair (bits, target) it returns, or not ok when an assertion *)
(* fails.                                                                  *)
(***************************************************************************)
nModulatedTimespan(first, last) ==
    LET retargetTimespan == target_timespan
        nActualTimespan == last.timestamp - first.timestamp
        modulated == retargetTimespan + ((nActualTimespan - retargetTimespan) \div 8)
        nMinTimespan == retargetTimespan - (retargetTimespan \div 8)
        nMaxTimespan == retargetTimespan + (retargetTimespan \div 2)
    IN  IF modulated < nMinTimespan THEN nMinTimespan
        ELSE IF modulated > nMaxTimespan THEN nMaxTimespan
        ELSE modulated

calculate_lbry_next_work_required(height, first, last) ==
    IF height = 0 THEN [ok |-> TRUE, bits |-> genesis_bits, target |-> max_target]
    ELSE
    LET bitsN == last.bits[1] % 256
        bitsBase == last.bits[2]
        bnPowLimit == max_target
        span == nModulatedTimespan(first, last)
        bnNew0 == FloorDiv(Mul(fromCompact(last.bits), span), span)
        bnNew == IF Gt(bnNew0, bnPowLimit) THEN bnPowLimit ELSE bnNew0
    IN  IF ~chain_is_regtest /\ ~(3 <= bitsN /\ bitsN <= 31)
        THEN [ok |-> FALSE]
        ELSE IF ~chain_is_regtest /\ ~(32768 <= bitsBase /\ bitsBase <= 8388607)
        THEN [ok |-> FALSE]
        ELSE IF ~GetCompact(bnNew).ok THEN [ok |-> FALSE]
        ELSE [ok |-> TRUE, bits |-> GetCompact(bnNew).compact, target |-> bnNew]

(***************************************************************************)
(* _verify_header(height, header, previous_header): "ok", or the assertion *)
(* that fails first.                                                       *)
(***************************************************************************)
verify_header(height, header, previous_header) ==
    LET work == calculate_lbry_next_work_required(height, previous_header, header)
    IN  IF hash_header(previous_header) # header.prev_block_hash
        THEN "prev hash mismatch"
        ELSE IF ~work.ok THEN "bits out of range"
        ELSE IF work.bits # header.bits THEN "bits mismatch"
        ELSE IF ~Le(pow_hash_int(header), work.target)
        THEN "insufficient proof of work"
        ELSE "ok"

(***************************************************************************)
(* The store.                                                              *)
(***************************************************************************)
Callers == {"c1", "c2"}

VARIABLES
    file,      \* the whole 112-byte records of the file at self.path, in order
    tail,      \* <<>>, or <<r>>: the file ends with the first half of record r
               \* (r is kept with its second half zero)
    _size,     \* self._size: <<>> for None, <<n>> for the integer n
    locked,    \* self._write_lock.locked
    waiting,   \* self._write_lock.waiting: the callers queued in acquire()
    pc,        \* where each caller's connect() is
    frame,     \* the locals of each caller's _sync_connect, with what it raised,
               \* what it added to self._on_change_controller and what
               \* len(self) was when it started
    reader,    \* the last self[height] of a reader: the height, what
               \* sync_read_header returned and what __getitem__ returned or raised
    arith      \* the arguments and the result of the last call of the
               \* target arithmetic made on its own

vars == <<file, tail, _size, locked, waiting, pc, frame, reader, arith>>

HalfRecord == HEADER_SIZE \div 2

\* The record whose first HalfRecord bytes are those of a and whose other
\* bytes are those of b: version and prev_block_hash lie in the first half,
\* claim_trie_root, timestamp, bits and nonce in the second, merkle_root
\* (bytes 36 to 68) across both; 2 stands for a root mixed from two roots.
Torn(a, b) ==
    [version |-> a.version, prev_block_hash |-> a.prev_block_hash,
     merkle_root |-> IF a.merkle_root = b.merkle_root THEN a.merkle_root ELSE 2,
     claim_trie_root |-> b.claim_trie_root, timestamp |-> b.timestamp,
     bits |-> b.bits, nonce |-> b.nonce]

\* os.path.getsize(self.path)
getsize == HEADER_SIZE * Len(file) + (IF tail = <<>> THEN 0 ELSE HalfRecord)

\* sync_read_length
sync_read_length == getsize \div HEADER_SIZE

\* __len__: the value returned, and self._size after the call
len_self == IF _size = <<>> THEN sync_read_length ELSE _size[1]

size_after_len == <<len_self>>

\* sync_read_header(height): None outside [0, len(self)), else the bytes that
\* f.read(HEADER_SIZE) returns at height * HEADER_SIZE: a whole record, or
\* fewer than HEADER_SIZE bytes ("short") at or beyond the end of the file.
sync_read_header(height) ==
    IF 0 <= height /\ height < len_self
    THEN IF height < Len(file) THEN [read |-> "record", record |-> file[height + 1]]
         ELSE [read |-> "short"]
    ELSE [read |-> "None"]

\* A partial record at the end of the file: the first half of the record in
\* half, kept as the record it would be with zero bytes after it.
FirstHalf(half) == IF half = <<>> THEN <<>> ELSE <<Torn(half[1], ZeroRecord)>>

\* The file after seek(start * HEADER_SIZE) and a write of the records recs
\* followed by the first half of the record in half (<<>> for none).  A write
\* of no bytes changes nothing; a write beyond the end of the file leaves a
\* hole that reads as zero bytes.
WriteAt(f, t, start, recs, half) ==
    LET gap == IF start > Len(f)
               THEN <<IF t = <<>> THEN ZeroRecord ELSE t[1]>>
                    \o [i \in 1..(start - Len(f) - 1) |-> ZeroRecord]
               ELSE <<>>
        base == f \o gap
        bt == IF start > Len(f) THEN <<>> ELSE t
        end == start + Len(recs)
        cells == SubSeq(base, 1, start) \o recs \o SubSeq(base, end + 1, Len(base))
    IN  IF recs = <<>> /\ half = <<>> THEN [file |-> f, tail |-> t]
        ELSE IF end > Len(base) THEN [file |-> cells, tail |-> FirstHalf(half)]
        ELSE IF end = Len(base)
        THEN [file |-> cells, tail |-> IF half = <<>> THEN bt ELSE FirstHalf(half)]
        ELSE IF half = <<>> THEN [file |-> cells, tail |-> bt]
        ELSE [file |-> [cells EXCEPT ![end + 1] = Torn(half[1], cells[end + 1])],
              tail |-> bt]

\* A truncate that leaves the file as it is.
TruncateNothing(f, t, pos, platform) == [file |-> f, tail |-> t]

\* The file after f.truncate() at position pos * HEADER_SIZE.  Beyond the
\* end of the file the result is platform-dependent: the file grows, filled
\* with zero bytes ("zero fill"), or stays as it is ("unchanged").
TruncateAt(f, t, pos, platform) ==
    IF pos <= Len(f) THEN [file |-> SubSeq(f, 1, pos), tail |-> <<>>]
    ELSE IF platform = "unchanged" THEN [file |-> f, tail |-> t]
    ELSE [file |-> f \o <<IF t = <<>> THEN ZeroRecord ELSE t[1]>>
                     \o [i \in 1..(pos - Len(f) - 1) |-> ZeroRecord],
          tail |-> <<>>]

IdleFrame ==
    [start |-> 0, count |-> 0, headers |-> <<>>, previous_header |-> None,
     old_size |-> <<>>, raised |-> "", published |-> <<>>, len_before |-> 0]

\* No reader has read a header yet.
NoRead == [called |-> FALSE]

\* The target arithmetic has not been called on its own.
NoCall == [op |-> "none"]

\* __init__ over an absent file: the file is created empty.
Init ==
    /\ file = <<>>
    /\ tail = <<>>
    /\ _size = <<>>
    /\ locked = FALSE
    /\ waiting = <<>>
    /\ pc = [c \in Callers |-> "idle"]
    /\ frame = [c \in Callers |-> IdleFrame]
    /\ reader = NoRead
    /\ arith = NoCall

\* A lock that never makes a caller wait.
acquire_unguarded == TRUE

\* DeferredLock.acquire(): TRUE when the lock is handed over at once.
acquire_now == ~locked

\* connect(), line 55: the caller asks for the write lock.
Call(c) ==
    /\ pc[c] = "idle"
    /\ IF acquire_now
       THEN /\ locked' = TRUE
            /\ pc' = [pc EXCEPT ![c] = "start"]
            /\ UNCHANGED waiting
       ELSE /\ waiting' = Append(waiting, c)
            /\ pc' = [pc EXCEPT ![c] = "waiting"]
            /\ UNCHANGED locked
    /\ UNCHANGED <<file, tail, _size, frame, reader, arith>>

\* _sync_connect starts on a worker thread with a batch of count records and
\* extra trailing bytes; _iterate_headers asserts len(headers) % HEADER_SIZE == 0
\* before it yields the first record.
Begin(c, start, count, extra) ==
    /\ pc[c] = "start"
    /\ frame' = [frame EXCEPT ![c] =
                    [start |-> start, count |-> count, headers |-> <<>>,
                     previous_header |-> None, old_size |-> <<>>,
                     raised |-> IF (count * HEADER_SIZE + extra) % HEADER_SIZE # 0
                                THEN "length not a multiple of HEADER_SIZE"
                                ELSE "",
                     published |-> <<>>,
                     len_before |-> len_self]]
    /\ pc' = [pc EXCEPT ![c] =
                 IF (count * HEADER_SIZE + extra) % HEADER_SIZE # 0 THEN "release"
                 ELSE IF count = 0 THEN "write"
                 ELSE "validate"]
    /\ UNCHANGED <<file, tail, _size, locked, waiting, reader, arith>>

\* Validate, writing each record to the file as soon as it is accepted.
ValidateEager(c, header) ==
    /\ pc[c] = "validate"
    /\ LET f == frame[c]
           height == f.start + Len(f.headers)
           fetch == f.previous_header = None /\ height > 0
           got == sync_read_header(height - 1)
           previous_header == IF fetch /\ got.read = "record" THEN got.record
                              ELSE f.previous_header
           verdict == IF fetch /\ got.read = "None" THEN "TypeError"
                      ELSE IF fetch /\ got.read = "short" THEN "ValueError"
                      ELSE verify_header(height, header, previous_header)
           after == WriteAt(file, tail, height, <<header>>, <<>>)
       IN  /\ _size' = IF fetch THEN size_after_len ELSE _size
           /\ IF verdict = "ok"
              THEN /\ frame' = [frame EXCEPT ![c].headers = Append(f.headers, header),
                                             ![c].previous_header = header]
                   /\ pc' = [pc EXCEPT ![c] =
                                IF Len(f.headers) + 1 = f.count THEN "write"
                                ELSE "validate"]
                   /\ file' = after.file
                   /\ tail' = after.tail
              ELSE /\ frame' = [frame EXCEPT ![c].raised = verdict]
                   /\ pc' = [pc EXCEPT ![c] = "release"]
                   /\ UNCHANGED <<file, tail>>
    /\ UNCHANGED <<locked, waiting, reader, arith>>

\* One round of the loop of lines 63-68 on the next record of the batch.
Validate(c, header) ==
    /\ pc[c] = "validate"
    /\ LET f == frame[c]
           height == f.start + Len(f.headers)
           fetch == f.previous_header = None /\ height > 0
           got == sync_read_header(height - 1)
           previous_header == IF fetch /\ got.read = "record" THEN got.record
                              ELSE f.previous_header
           verdict == IF fetch /\ got.read = "None" THEN "TypeError"
                      ELSE IF fetch /\ got.read = "short" THEN "ValueError"
                      ELSE verify_header(height, header, previous_header)
       IN  /\ _size' = IF fetch THEN size_after_len ELSE _size
           /\ IF verdict = "ok"
              THEN /\ frame' = [frame EXCEPT ![c].headers = Append(f.headers, header),
                                             ![c].previous_header = header]
                   /\ pc' = [pc EXCEPT ![c] =
                                IF Len(f.headers) + 1 = f.count THEN "write"
                                ELSE "validate"]
              ELSE /\ frame' = [frame EXCEPT ![c].raised = verdict]
                   /\ pc' = [pc EXCEPT ![c] = "release"]
    /\ UNCHANGED <<file, tail, locked, waiting, reader, arith>>

\* Lines 70-72: open, seek and write the whole batch.
Write(c) ==
    /\ pc[c] = "write"
    /\ LET after == WriteAt(file, tail, frame[c].start, frame[c].headers, <<>>)
       IN  /\ file' = after.file
           /\ tail' = after.tail
    /\ pc' = [pc EXCEPT ![c] = "truncate"]
    /\ UNCHANGED <<_size, locked, waiting, frame, reader, arith>>

\* Lines 70-72 when the write raises IOError after whole records of the batch
\* and, with half, the first half of the next one have reached the file: the
\* with block is left, lines 73-79 do not run.
WriteFails(c, whole, half) ==
    /\ pc[c] = "write"
    /\ whole < frame[c].count
    /\ LET after == WriteAt(file, tail, frame[c].start,
                            SubSeq(frame[c].headers, 1, whole),
                            IF half THEN <<frame[c].headers[whole + 1]>> ELSE <<>>)
       IN  /\ file' = after.file
           /\ tail' = after.tail
    /\ frame' = [frame EXCEPT ![c].raised = "IOError"]
    /\ pc' = [pc EXCEPT ![c] = "release"]
    /\ UNCHANGED <<_size, locked, waiting, reader, arith>>

\* Line 73: f.truncate() at the position after the write.
Truncate(c, platform) ==
    /\ pc[c] = "truncate"
    /\ LET after == TruncateAt(file, tail, frame[c].start + frame[c].count, platform)
       IN  /\ file' = after.file
           /\ tail' = after.tail
    /\ pc' = [pc EXCEPT ![c] = "update"]
    /\ UNCHANGED <<_size, locked, waiting, frame, reader, arith>>

\* Lines 75-79: self._size is assigned before the subtraction, which raises
\* TypeError when _old_size is None.
UpdateSize(c) ==
    /\ pc[c] = "update"
    /\ _size' = <<sync_read_length>>
    /\ IF _size = <<>>
       THEN frame' = [frame EXCEPT ![c].old_size = _size,
                                   ![c].raised = "TypeError"]
       ELSE frame' = [frame EXCEPT ![c].old_size = _size,
                                   ![c].raised = "ok",
                                   ![c].published = <<sync_read_length - _size[1]>>]
    /\ pc' = [pc EXCEPT ![c] = "release"]
    /\ UNCHANGED <<file, tail, locked, waiting, reader, arith>>

\* A release that is not in a finally clause: it is skipped when
\* _sync_connect raised.
ReleaseOnSuccess(c) ==
    /\ pc[c] = "release"
    /\ IF frame[c].raised # "ok"
       THEN /\ pc' = [pc EXCEPT ![c] = "idle"]
            /\ UNCHANGED <<locked, waiting>>
       ELSE IF waiting # <<>>
       THEN /\ pc' = [pc EXCEPT ![c] = "idle", ![Head(waiting)] = "start"]
            /\ waiting' = Tail(waiting)
            /\ locked' = TRUE
       ELSE /\ pc' = [pc EXCEPT ![c] = "idle"]
            /\ locked' = FALSE
            /\ UNCHANGED waiting
    /\ frame' = [frame EXCEPT ![c] = IdleFrame]
    /\ UNCHANGED <<file, tail, _size, reader, arith>>

\* Lines 58-59: the finally clause releases the lock, which goes to the first
\* waiting caller; connect() ends with a failure or returns None.
Release(c) ==
    /\ pc[c] = "release"
    /\ IF waiting # <<>>
       THEN /\ pc' = [pc EXCEPT ![c] = "idle", ![Head(waiting)] = "start"]
            /\ waiting' = Tail(waiting)
            /\ locked' = TRUE
       ELSE /\ pc' = [pc EXCEPT ![c] = "idle"]
            /\ locked' = FALSE
            /\ UNCHANGED waiting
    /\ frame' = [frame EXCEPT ![c] = IdleFrame]
    /\ UNCHANGED <<file, tail, _size, reader, arith>>

\* len(self) by a reader, which takes no lock.
ReadLength ==
    /\ _size = <<>>
    /\ _size' = size_after_len
    /\ UNCHANGED <<file, tail, locked, waiting, pc, frame, reader, arith>>

\* A new BlockchainHeaders object over the same path (the process restarts
\* between two connects): the file exists and is kept.
Construct ==
    /\ \A c \in Callers : pc[c] = "idle"
    /\ _size # <<>>
    /\ _size' = <<>>
    /\ locked' = FALSE
    /\ waiting' = <<>>
    /\ UNCHANGED <<file, tail, pc, frame, reader, arith>>

Next ==
    \/ \E c \in Callers : Call(c)
    \/ \E c \in Callers, start \in 0..MaxLen, extra \in {0, HalfRecord} :
          \E count \in 0..(MaxLen - start) : Begin(c, start, count, extra)
    \/ \E c \in Callers, header \in Headers : Validate(c, header)
    \/ \E c \in Callers : Write(c)
    \/ \E c \in Callers, whole \in 0..MaxLen, half \in BOOLEAN : WriteFails(c, whole, half)
    \/ \E c \in Callers, platform \in {"zero fill", "unchanged"} : Truncate(c, platform)
    \/ \E c \in Callers : UpdateSize(c)
    \/ \E c \in Callers : Release(c)
    \/ ReadLength
    \/ Construct

Spec == Init /\ [][Next]_vars

\* The steps of caller c's connect once it holds the lock: the worker
\* thread's _sync_connect and the release in the finally clause.
Worker(c) ==
    \/ \E start \in 0..MaxLen, extra \in {0, HalfRecord} :
          \E count \in 0..(MaxLen - start) : Begin(c, start, count, extra)
    \/ \E header \in Headers : Validate(c, header)
    \/ Write(c)
    \/ \E whole \in 0..MaxLen, half \in BOOLEAN : WriteFails(c, whole, half)
    \/ \E platform \in {"zero fill", "unchanged"} : Truncate(c, platform)
    \/ UpdateSize(c)
    \/ Release(c)

\* Every _sync_connect run terminates and the reactor runs the callbacks of
\* a fired Deferred: a connect that holds the lock keeps taking steps.
FairSpec == Spec /\ \A c \in Callers : WF_vars(Worker(c))

\* The same store when no write to the file ever fails.
NextNoIOError ==
    \/ \E c \in Callers : Call(c)
    \/ \E c \in Callers, start \in 0..MaxLen, extra \in {0, HalfRecord} :
          \E count \in 0..(MaxLen - start) : Begin(c, start, count, extra)
    \/ \E c \in Callers, header \in Headers : Validate(c, header)
    \/ \E c \in Callers : Write(c)
    \/ \E c \in Callers, platform \in {"zero fill", "unchanged"} : Truncate(c, platform)
    \/ \E c \in Callers : UpdateSize(c)
    \/ \E c \in Callers : Release(c)
    \/ ReadLength
    \/ Construct

SpecNoIOError == Init /\ [][NextNoIOError]_vars

(***************************************************************************)
(* Readers.  self[height] runs on the reactor thread and takes no lock, so *)
(* it may run between any two steps of a _sync_connect on a worker thread. *)
(***************************************************************************)
\* __getitem__(height): _deserialize slices what sync_read_header returned.
\* None[0:4] raises TypeError; hex_to_int of an empty slice raises
\* ValueError; 112 bytes give the header with block_height = height.
getitem(height) ==
    LET header == sync_read_header(height)
    IN  IF header.read = "None" THEN [raised |-> "TypeError"]
        ELSE IF header.read = "short" THEN [raised |-> "ValueError"]
        ELSE [raised |-> "", header |-> header.record, block_height |-> height]

\* Heights a reader asks for: below, inside and beyond any length.
Heights == (0 - 1)..MaxLen

\* A reader evaluates self[height]; len(self) fills the cached length.
ReadHeader(height) ==
    /\ reader' = [called |-> TRUE, height |-> height, length |-> len_self,
                  raw |-> sync_read_header(height), item |-> getitem(height)]
    /\ _size' = size_after_len
    /\ UNCHANGED <<file, tail, locked, waiting, pc, frame, arith>>

\* The store with readers, when no write to the file ever fails.
NextReaders ==
    \/ \E c \in Callers : Call(c)
    \/ \E c \in Callers, start \in 0..MaxLen, extra \in {0, HalfRecord} :
          \E count \in 0..(MaxLen - start) : Begin(c, start, count, extra)
    \/ \E c \in Callers, header \in Headers : Validate(c, header)
    \/ \E c \in Callers : Write(c)
    \/ \E c \in Callers, platform \in {"zero fill", "unchanged"} : Truncate(c, platform)
    \/ \E c \in Callers : UpdateSize(c)
    \/ \E c \in Callers : Release(c)
    \/ ReadLength
    \/ Construct
    \/ \E height \in Heights : ReadHeader(height)

SpecReaders == Init /\ [][NextReaders]_vars

(***************************************************************************)
(* The target arithmetic on its own: GetCompact and fromCompact applied to *)
(* a value, and _calculate_lbry_next_work_required applied to a pair of    *)
(* headers, with the arguments drawn in the initial state.                 *)
(***************************************************************************)
\* The values handed to GetCompact have at most MaxDigits significant bytes.
MaxDigits == 4

Digits == {0, 1, 127, 128, 255}

\* Low values, and the same values 26 bytes up: the highest is max_target.
Values ==
    {ShiftLeftBytes(Norm(s), k) : s \in [1..MaxDigits -> Digits], k \in {0, 26}}

\* Timestamps of the first and last header of a window: the timespans are
\* below the lower clamp, the target timespan, between the clamps, above
\* the upper clamp, and negative.
RetargetTimestamps == {0, 150, 400, 3000}

\* 0x1f7fffff and 0x1f010000 decode above max_target; 0x2000ffff and
\* 0x1e80ffff fail the range assertions of lines 148 and 151.
RetargetBits ==
    {genesis_bits, LowerBits, OverBits, RangeBits, <<3, 32768>>, <<4, 32769>>,
     <<30, 8388607>>, <<31, 8388607>>, <<30, 8388608 + 65535>>}

RetargetHeaders ==
    [version : {1}, prev_block_hash : {0}, merkle_root : {1},
     claim_trie_root : {1}, timestamp : RetargetTimestamps,
     bits : RetargetBits, nonce : {0}]

InitArith ==
    /\ file = <<>>
    /\ tail = <<>>
    /\ _size = <<>>
    /\ locked = FALSE
    /\ waiting = <<>>
    /\ pc = [c \in Callers |-> "idle"]
    /\ frame = [c \in Callers |-> IdleFrame]
    /\ reader = NoRead
    /\ \/ \E value \in Values : arith = [op |-> "value", value |-> value]
       \/ \E height \in 1..MaxLen, first \in RetargetHeaders, last \in RetargetHeaders :
             /\ first.bits = genesis_bits
             /\ arith = [op |-> "headers", height |-> height,
                         first |-> first, last |-> last]

\* _ArithUint256(value).GetCompact()
Encode ==
    /\ arith.op = "value"
    /\ arith' = [op |-> "compact", value |-> arith.value,
                 compact |-> GetCompact(arith.value)]
    /\ UNCHANGED <<file, tail, _size, locked, waiting, pc, frame, reader>>

\* _ArithUint256.fromCompact of what GetCompact returned
Decode ==
    /\ arith.op = "compact"
    /\ arith.compact.ok
    /\ arith' = [op |-> "decoded", value |-> arith.value,
                 compact |-> arith.compact,
                 decoded |-> fromCompact(arith.compact.compact)]
    /\ UNCHANGED <<file, tail, _size, locked, waiting, pc, frame, reader>>

\* _calculate_lbry_next_work_required(height, first, last)
Retarget ==
    /\ arith.op = "headers"
    /\ arith' = [op |-> "work", height |-> arith.height, first |-> arith.first,
                 last |-> arith.last,
                 work |-> calculate_lbry_next_work_required(
                              arith.height, arith.first, arith.last)]
    /\ UNCHANGED <<file, tail, _size, locked, waiting, pc, frame, reader>>

NextArith ==
    \/ Encode
    \/ Decode
    \/ Retarget

SpecArith == InitArith /\ [][NextArith]_vars

\* What the Deferred of connect() fires with once _sync_connect has ended:
\* the failure that was raised, or None, since the generator of lines 53-59
\* yields the result of deferToThread and returns nothing.
connect_result(c) ==
    IF frame[c].raised = "ok" THEN None ELSE [failure |-> frame[c].raised]

(***************************************************************************)
(* Definitions used by the properties.                                     *)
(***************************************************************************)
\* length() as a caller would read it now.
length == len_self

\* Caller c holds the write lock: its connect() is between acquire() and
\* release().
Holds(c) == pc[c] \in {"start", "validate", "write", "truncate", "update", "release"}

\* No connect() holds the lock.
Quiescent == \A c \in Callers : ~Holds(c)

\* The record before the i-th accepted record of c's batch.
Predecessor(c, i) ==
    IF i > 1 THEN frame[c].headers[i - 1]
    ELSE IF frame[c].start = 0 THEN None
    ELSE file[frame[c].start]

\* Every record of c's batch has been accepted by _verify_header against the
\* record before it.
AllValidated(c) ==
    /\ Len(frame[c].headers) = frame[c].count
    /\ frame[c].count > 0 => frame[c].start <= Len(file)
    /\ \A i \in 1..frame[c].count :
          verify_header(frame[c].start + i - 1, frame[c].headers[i],
                        Predecessor(c, i)) = "ok"

ValidationFailures ==
    {"length not a multiple of HEADER_SIZE", "TypeError", "ValueError",
     "prev hash mismatch", "bits out of range", "bits mismatch",
     "insufficient proof of work"}

(***************************************************************************)
(* C1.  Chain linkage as an invariant of the store: whenever no connect is *)
(* running, for every height i with 1 <= i < length() the record at i is   *)
(* in the file and its prev_block_hash is the hash of the record at i - 1. *)
(* The code violates it.                                                   *)
(***************************************************************************)
C1_ChainLinkage ==
    Quiescent =>
        \A i \in 1..(length - 1) :
            /\ i < Len(file)
            /\ hash_header(file[i]) = file[i + 1].prev_block_hash

(***************************************************************************)
(* C2.  Validation is all-or-nothing: while a connect is between the start *)
(* of _sync_connect and the end of its validation loop no step changes the *)
(* file or length(); a connect whose batch length is not a multiple of     *)
(* HEADER_SIZE or whose record (at any position) is rejected goes to the   *)
(* release of the lock having raised, with nothing published, and the      *)
(* release changes neither the file nor length(); and a connect reaches    *)
(* its write only with every record of the batch accepted.                 *)
(***************************************************************************)
C2_ValidationAllOrNothing ==
    /\ [](\A c \in Callers : pc[c] = "write" => AllValidated(c))
    /\ [][\A c \in Callers :
            /\ pc[c] \in {"start", "validate"} =>
                  /\ file' = file
                  /\ tail' = tail
                  /\ length' = length
                  /\ pc'[c] \in {"start", "validate", "write", "release"}
            /\ pc[c] \in {"start", "validate"} /\ pc'[c] = "release" =>
                  /\ frame'[c].raised \in ValidationFailures
                  /\ frame'[c].published = <<>>
            /\ pc[c] = "release" /\ frame[c].raised \in ValidationFailures =>
                  /\ file' = file
                  /\ tail' = tail
                  /\ length' = length
                  /\ pc'[c] = "release" => frame'[c] = frame[c]
        ]_vars

\* A batch of two records whose first record was accepted and whose second
\* was rejected, over a store that holds records.
C2_Witness ==
    \E c \in Callers :
        /\ pc[c] = "release"
        /\ frame[c].count = 2
        /\ Len(frame[c].headers) = 1
        /\ frame[c].raised = "insufficient proof of work"
        /\ Len(file) = 2

(***************************************************************************)
(* C3.  When _sync_connect has ended: if it raised nothing, length() is    *)
(* start + len(bytes)/112; if it raised, length() is what it was when the  *)
(* call started.  The code violates it.                                    *)
(***************************************************************************)
C3_LengthAfterConnect ==
    \A c \in Callers :
        pc[c] = "release" =>
            IF frame[c].raised = "ok"
            THEN length = frame[c].start + frame[c].count
            ELSE length = frame[c].len_before

(***************************************************************************)
(* C4.  Whenever no connect is running, the size of the file in bytes is   *)
(* length() * 112.  The code violates it.                                  *)
(***************************************************************************)
C4_FileSizeIsLength == Quiescent => getsize = length * HEADER_SIZE

(***************************************************************************)
(* C5.  connect(n, emptyBytes) is a no-op: no step of a connect with an    *)
(* empty batch changes the file or length(), and it publishes nothing.     *)
(* The code violates it.                                                   *)
(***************************************************************************)
C5_EmptyConnectIsNoOp ==
    [][\A c \in Callers :
          pc[c] \in {"write", "truncate", "update"} /\ frame[c].count = 0 =>
              /\ file' = file
              /\ tail' = tail
              /\ length' = length
              /\ frame'[c].published = <<>>
      ]_vars

(***************************************************************************)
(* C6.  Every record at a height h > 0 that validation lets through to the *)
(* write has the bits that _calculate_lbry_next_work_required returns with *)
(* the record at h - 1 as the last header of the window.  The code         *)
(* violates it.                                                            *)
(***************************************************************************)
C6_BitsFromPredecessor ==
    \A c \in Callers :
        pc[c] = "write" /\ frame[c].count > 0 /\ frame[c].start <= Len(file) =>
            \A i \in 1..Len(frame[c].headers) :
                frame[c].start + i - 1 > 0 =>
                    LET last == Predecessor(c, i)
                        work == calculate_lbry_next_work_required(
                                    frame[c].start + i - 1, last, last)
                    IN  /\ work.ok
                        /\ work.bits = frame[c].headers[i].bits

(***************************************************************************)
(* C7.  Proof of work as an invariant of the store: whenever no connect is *)
(* running, for every height h in [0, length()) the record at h is in the  *)
(* file and its proof-of-work hash is at most the target decoded from its  *)
(* own bits.  The code violates it.                                        *)
(***************************************************************************)
C7_ProofOfWork ==
    Quiescent =>
        \A h \in 0..(length - 1) :
            /\ h < Len(file)
            /\ Le(pow_hash_int(file[h + 1]), fromCompact(file[h + 1].bits))

(***************************************************************************)
(* C8.  On a store over an empty file whose length was never read,         *)
(* connect(0, genesisRecordBytes) with a record that validation accepts,   *)
(* and whose write does not fail, raises nothing, leaves length() = 1 and  *)
(* publishes exactly one change.  The code violates it.                    *)
(***************************************************************************)
C8_FreshGenesisConnect ==
    \A c \in Callers :
        /\ pc[c] = "release"
        /\ frame[c].start = 0
        /\ frame[c].count = 1
        /\ Len(frame[c].headers) = 1
        /\ frame[c].len_before = 0
        /\ frame[c].old_size = <<>>
        /\ frame[c].raised # "IOError"
        => /\ frame[c].raised = "ok"
           /\ length = 1
           /\ Len(frame[c].published) = 1

(***************************************************************************)
(* C9.  Whenever no connect is running and length() >= 1, the record at    *)
(* height 0 is in the file, has the genesis bits and a proof-of-work hash  *)
(* that is at most max_target.  The code violates it.                      *)
(***************************************************************************)
C9_GenesisRecord ==
    Quiescent /\ length >= 1 =>
        /\ Len(file) >= 1
        /\ file[1].bits = genesis_bits
        /\ Le(pow_hash_int(file[1]), max_target)

(***************************************************************************)
(* C10.  Writers are mutually exclusive: no two callers are between        *)
(* acquire() and release() at once, and whoever is holds the lock.         *)
(***************************************************************************)
C10_MutualExclusion ==
    \A c \in Callers :
        Holds(c) => /\ locked
                    /\ \A d \in Callers \ {c} : ~Holds(d)

\* One caller is writing while the other waits for the lock.
C10_Witness ==
    \E c, d \in Callers :
        /\ pc[c] = "write"
        /\ pc[d] = "waiting"
        /\ waiting = <<d>>

(***************************************************************************)
(* C11.  A reader never obtains a partial record: a sync_read_header that  *)
(* runs while the worker thread of a connect with a non-empty batch is     *)
(* between the start of its validation and its update of self._size        *)
(* returns None or the 112 bytes of the record the file holds at that      *)
(* height.  The code violates it: a connect that shortens the file leaves  *)
(* the cached length above the file's between its truncate and its update  *)
(* of self._size, and a read in between returns fewer than 112 bytes.      *)
(***************************************************************************)
C11_NoPartialRead ==
    [][(/\ reader' # reader
        /\ \E c \in Callers :
              /\ pc[c] \in {"validate", "write", "truncate", "update"}
              /\ frame[c].count > 0)
       => \/ reader'.raw.read = "None"
          \/ /\ reader'.raw.read = "record"
             /\ reader'.raw.record = file[reader'.height + 1]
      ]_vars

(***************************************************************************)
(* C12.  One change event per batch written: when _sync_connect has ended, *)
(* a connect that wrote a non-empty batch has added exactly one value to   *)
(* the change stream, length() now minus length() when it started, and a   *)
(* connect that raised has added nothing.  The code violates it.           *)
(***************************************************************************)
C12_OneEventPerWrite ==
    \A c \in Callers :
        pc[c] = "release" =>
            /\ frame[c].raised # "ok" => frame[c].published = <<>>
            /\ (/\ frame[c].count > 0
                /\ Len(frame[c].headers) = frame[c].count
                /\ frame[c].raised # "IOError")
               => frame[c].published = <<length - frame[c].len_before>>

(***************************************************************************)
(* C13.  After a write that failed with IOError the cached length is       *)
(* re-derived from the file: when _sync_connect has ended with IOError,    *)
(* length() is the size of the file in whole records.  The code violates   *)
(* it.                                                                     *)
(***************************************************************************)
C13_LengthRederivedAfterIOError ==
    \A c \in Callers :
        pc[c] = "release" /\ frame[c].raised = "IOError" =>
            length = sync_read_length

(***************************************************************************)
(* C14.  self[height] returns None, and raises nothing, for every height   *)
(* outside [0, length()), and the decoded header with block_height =       *)
(* height for every height inside.  The code violates it.                  *)
(***************************************************************************)
C14_ReadHeaderAbsentOutOfRange ==
    reader.called =>
        IF 0 <= reader.height /\ reader.height < reader.length
        THEN /\ reader.item.raised = ""
             /\ reader.item.block_height = reader.height
        ELSE reader.item = None

(***************************************************************************)
(* C15.  Compact round trip: for every value in [0, max_target] whose most *)
(* significant byte is below 0x80 (the mantissa's sign bit is clear),      *)
(* GetCompact succeeds and fromCompact of its result is the value.  As     *)
(* stated this fails: the mantissa keeps three bytes.                      *)
(***************************************************************************)
SetsSignBit(value) == value # <<>> /\ value[Len(value)] >= 128

C15_RoundTrip ==
    /\ arith.op = "compact" /\ Le(arith.value, max_target) /\ ~SetsSignBit(arith.value)
       => arith.compact.ok
    /\ arith.op = "decoded" /\ Le(arith.value, max_target) /\ ~SetsSignBit(arith.value)
       => arith.decoded = arith.value

\* The value has no non-zero byte below its three most significant bytes.
ThreeBytes(value) == \A i \in 1..(Len(value) - 3) : value[i] = 0

\* The value with the bytes below its three most significant bytes cleared.
TopThreeBytes(value) ==
    IF Len(value) <= 3 THEN value
    ELSE Zeros(Len(value) - 3) \o SubSeq(value, Len(value) - 2, Len(value))

(***************************************************************************)
(* C15, as the code has it: for every value in [0, max_target] whose most  *)
(* significant byte is below 0x80, GetCompact succeeds and fromCompact of  *)
(* its result is the value with the bytes below its three most significant *)
(* bytes cleared: the value itself exactly when those bytes are zero.      *)
(***************************************************************************)
C15_RoundTripThreeBytes ==
    /\ arith.op = "compact" /\ Le(arith.value, max_target) /\ ~SetsSignBit(arith.value)
       => arith.compact.ok
    /\ arith.op = "decoded" /\ Le(arith.value, max_target) /\ ~SetsSignBit(arith.value)
       => /\ arith.decoded = TopThreeBytes(arith.value)
          /\ (arith.decoded = arith.value) <=> ThreeBytes(arith.value)

\* A 30-byte value with three significant bytes came back as it was.
C15_Witness ==
    /\ arith.op = "decoded"
    /\ Len(arith.value) = 30
    /\ arith.value[28] # 0
    /\ ~SetsSignBit(arith.value)
    /\ ThreeBytes(arith.value)
    /\ arith.decoded = arith.value

C16_ConnectReturnsChange ==
    \A c \in Callers :
        pc[c] = "release" /\ frame[c].raised = "ok" =>
            connect_result(c) = [integer |-> frame[c].published[1]]

(***************************************************************************)
(* C17.  The write lock is released on every exit path of connect: the     *)
(* step that ends a connect, whatever _sync_connect raised, frees the lock *)
(* or hands it to the first waiting caller; the lock is free and nobody    *)
(* waits whenever no connect is running; every connect that holds the lock *)
(* releases it, and every caller waiting on the lock gets it and runs.     *)
(***************************************************************************)
C17_LockAlwaysReleased ==
    /\ [](Quiescent => ~locked /\ waiting = <<>>)
    /\ [][\A c \in Callers :
            pc[c] = "release" /\ pc'[c] # "release" =>
                /\ pc'[c] = "idle"
                /\ IF waiting = <<>> THEN ~locked'
                   ELSE /\ locked'
                        /\ pc'[Head(waiting)] = "start"
                        /\ waiting' = Tail(waiting)
        ]_vars
    /\ \A c \in Callers : Holds(c) ~> (pc[c] = "idle")
    /\ \A c \in Callers : (pc[c] = "waiting") ~> (pc[c] = "start")

\* A connect whose write failed is about to release the lock while the other
\* caller waits for it.
C17_Witness ==
    \E c, d \in Callers :
        /\ pc[c] = "release"
        /\ frame[c].raised = "IOError"
        /\ pc[d] = "waiting"
        /\ waiting = <<d>>
        /\ locked

(***************************************************************************)
(* C18.  A connect with a non-empty batch changes only the tail of the     *)
(* store: no step of it changes a record below start; when it has          *)
(* succeeded the file is the records below start followed by the batch, in *)
(* order, and nothing after; and a step of it changes or removes a record  *)
(* of the store (one at a height below length() as it was when the call    *)
(* started) only when start is below that length.                          *)
(***************************************************************************)
C18_OnlyTailChanges ==
    /\ [](\A c \in Callers :
            pc[c] = "release" /\ frame[c].raised = "ok" /\ frame[c].count > 0 =>
                /\ Len(file) = frame[c].start + frame[c].count
                /\ tail = <<>>
                /\ SubSeq(file, frame[c].start + 1, Len(file)) = frame[c].headers)
    /\ [][\A c \in Callers :
            pc[c] \in {"validate", "write", "truncate", "update"}
            /\ frame[c].count > 0 =>
                /\ \A i \in 1..frame[c].start :
                      i <= Len(file) => i <= Len(file') /\ file'[i] = file[i]
                /\ (\E i \in 1..frame[c].len_before :
                       i <= Len(file) /\ (i > Len(file') \/ file'[i] # file[i]))
                   => frame[c].start < frame[c].len_before
        ]_vars

\* A connect that replaced the record at height 1 of a store of two records
\* has succeeded: the record at height 0 is still there.
C18_Witness ==
    \E c \in Callers :
        /\ pc[c] = "release"
        /\ frame[c].raised = "ok"
        /\ frame[c].start = 1
        /\ frame[c].count = 1
        /\ frame[c].len_before = 2
        /\ Len(file) = 2
        /\ file[2] = frame[c].headers[1]

\* The record that the next round of c's validation loop checks a record
\* against, when it can be had.
PreviousOf(c) ==
    LET height == frame[c].start + Len(frame[c].headers)
    IN  IF frame[c].previous_header = None /\ height > 0
        THEN IF sync_read_header(height - 1).read = "record"
             THEN sync_read_header(height - 1).record
             ELSE None
        ELSE frame[c].previous_header

\* The bits required of a record at a height after the record previous:
\* the genesis bits at height 0, else what the retarget gives with previous
\* as the last header of the window.
RequiredBits(height, previous) ==
    IF height = 0 THEN [ok |-> TRUE, bits |-> genesis_bits]
    ELSE calculate_lbry_next_work_required(height, previous, previous)

(***************************************************************************)
(* C19.  The checks of a record run in the order linkage, bits, proof of   *)
(* work: whenever a connect is about to check a record whose predecessor   *)
(* it can read, every record with a wrong prev_block_hash is rejected with *)
(* the linkage error; every record with the right prev_block_hash and bits *)
(* other than the required ones is rejected with a difficulty error; and   *)
(* the proof-of-work error is given only to a record whose linkage and     *)
(* bits are right.  The code violates it.                                  *)
(***************************************************************************)
C19_CheckOrder ==
    \A c \in Callers :
        pc[c] = "validate" =>
            LET height == frame[c].start + Len(frame[c].headers)
                previous == PreviousOf(c)
                required == RequiredBits(height, previous)
            IN  (height > 0 => previous # None) =>
                \A header \in Headers :
                    LET verdict == verify_header(height, header, previous)
                        linked == header.prev_block_hash = hash_header(previous)
                        bitsRight == required.ok /\ required.bits = header.bits
                    IN  /\ ~linked => verdict = "prev hash mismatch"
                        /\ linked /\ ~bitsRight =>
                              verdict \in {"bits mismatch", "bits out of range"}
                        /\ verdict = "insufficient proof of work" =>
                              linked /\ bitsRight

====
